---- MODULE Spec2Model ----
(***************************************************************************)
(* Webhook tester: the server-side probe handler (route.ts, POST) and the *)
(* client component (WebhookTester: isValidUrl, testWebhook, clearHistory, *)
(* the localStorage load/save effects).                                    *)
(*                                                                         *)
(* Text is modelled as a sequence of tokens: a token is a maximal run of   *)
(* characters other than the separators "." ":" "[" "]", and each          *)
(* separator is a token of its own.  "127.0.0.1.evil" is                   *)
(* <<"127", ".", "0", ".", "0", ".", "1", ".", "evil">>.  A prefix test or *)
(* an anchored regular expression whose literal ends in a separator reads  *)
(* the same on tokens as on characters.                                    *)
(***************************************************************************)
EXTENDS Integers, Sequences, FiniteSets, TLC

----------------------------------------------------------------------------
(* Text helpers *)

\* the element of a one-element set; used to evaluate a value once and
\* name it
The(S) == CHOOSE x \in S : TRUE

\* s.startsWith(p)
StartsWith(s, p) ==
    /\ Len(p) <= Len(s)
    /\ SubSeq(s, 1, Len(p)) = p

\* index of the first token t in s, 0 when there is none
IndexOf(s, t) ==
    IF \E i \in 1..Len(s) : s[i] = t
    THEN CHOOSE i \in 1..Len(s) : s[i] = t /\ \A j \in 1..(i - 1) : s[j] # t
    ELSE 0

\* the pieces of s between the separator tokens sep ("" is an empty piece);
\* Pieces[i] are the pieces of s from position i on
SplitOn(s, sep) ==
    LET Pieces[i \in 1..(Len(s) + 2)] ==
            IF i > Len(s) THEN <<"">>
            ELSE IF s[i] = sep THEN <<"">> \o Pieces[i + 1]
            ELSE IF i = Len(s) THEN <<s[i]>>
            ELSE IF s[i + 1] = sep THEN <<s[i]>> \o Pieces[i + 2]
            ELSE <<"?">>
    IN  Pieces[1]

\* the pieces joined again with sep between them
JoinWith(parts, sep) ==
    [i \in 1..(2 * Len(parts) - 1) |->
        IF i % 2 = 1 THEN parts[(i + 1) \div 2] ELSE sep]

\* String.prototype.toLowerCase on one token: the tokens of the inputs that
\* hold an upper-case letter, each with its lower-case form
UpperTokens ==
    [LOCALHOST |-> "localhost", EXAMPLE |-> "example", FC00 |-> "fc00",
     HTTP |-> "http", HTTPS |-> "https"]

LowerToken(t) == IF t \in DOMAIN UpperTokens THEN UpperTokens[t] ELSE t

ToLowerCase(s) == [i \in DOMAIN s |-> LowerToken(s[i])]

\* the decimal numerals of one byte, and the value of a numeral
Numerals == {ToString(n) : n \in 0..255}

IsNumeral(t) == t \in Numerals

NumValOf == [t \in Numerals |-> CHOOSE n \in 0..255 : ToString(n) = t]

NumVal(t) == NumValOf[t]

\* the hexadecimal pieces of the IPv6 literals of the inputs
HexPieces == {"0", "1", "fc00", "fd00"}

----------------------------------------------------------------------------
(* new URL(urlString): the WHATWG URL parser, as far as the handler and    *)
(* the client read its result (protocol, hostname, or the TypeError).      *)
(* A URL text is [scheme, host]: scheme "://" host, or host alone when     *)
(* scheme is "".                                                           *)

ParseFailure == [ok |-> FALSE, protocol |-> "", hostname |-> <<>>]

SpecialSchemes == {"http", "https", "ftp"}

\* authority -> host and port: the host ends at the first ":" outside
\* brackets; the port is empty or one number
HostOf(a) ==
    IF a # <<>> /\ a[1] = "["
    THEN IF IndexOf(a, "]") = 0 THEN <<"[">> ELSE SubSeq(a, 1, IndexOf(a, "]"))
    ELSE IF IndexOf(a, ":") = 0 THEN a ELSE SubSeq(a, 1, IndexOf(a, ":") - 1)

PortOf(a) == SubSeq(a, Len(HostOf(a)) + 1, Len(a))

PortOk(p) ==
    \/ p = <<>>
    \/ p = <<":">>
    \/ Len(p) = 2 /\ p[1] = ":" /\ IsNumeral(p[2])

\* the dot-separated parts of a host, a single trailing empty part removed
HostParts(h) ==
    The({ IF Len(parts) > 1 /\ parts[Len(parts)] = ""
          THEN SubSeq(parts, 1, Len(parts) - 1)
          ELSE parts : parts \in {SplitOn(h, ".")} })

\* "ends in a number": the last part is a number
EndsInANumber(h) ==
    \E parts \in {HostParts(h)} : IsNumeral(parts[Len(parts)])

RECURSIVE Pow256(_)
Pow256(k) == IF k = 0 THEN 1 ELSE 256 * Pow256(k - 1)

\* IPv4 parser: at most four numeric parts, no part but the last above 255,
\* the last one filling the remaining bytes; the four bytes of the address,
\* or <<>> for failure.  (A numeral of the model is below 256^4.)
IPv4Parse(h) ==
    The({ IF Len(parts) > 4 THEN <<>>
          ELSE IF \E i \in 1..Len(parts) : ~IsNumeral(parts[i]) THEN <<>>
          ELSE IF \E i \in 1..(Len(parts) - 1) : NumVal(parts[i]) > 255 THEN <<>>
          ELSE IF /\ 5 - Len(parts) < 4
                  /\ NumVal(parts[Len(parts)]) >= Pow256(5 - Len(parts))
               THEN <<>>
          ELSE [i \in 1..4 |->
                   IF i < Len(parts) THEN NumVal(parts[i])
                   ELSE (NumVal(parts[Len(parts)]) \div Pow256(4 - i)) % 256]
          : parts \in {HostParts(h)} })

\* IPv4 serializer: four decimal bytes with dots
IPv4Serialize(b) ==
    JoinWith(<<ToString(b[1]), ToString(b[2]), ToString(b[3]), ToString(b[4])>>, ".")

\* the position of the first "::" in s, 0 when there is none
CompressAt(s) ==
    IF \E i \in 1..(Len(s) - 1) : s[i] = ":" /\ s[i + 1] = ":"
    THEN CHOOSE i \in 1..(Len(s) - 1) :
             /\ s[i] = ":" /\ s[i + 1] = ":"
             /\ \A j \in 1..(i - 1) : ~(s[j] = ":" /\ s[j + 1] = ":")
    ELSE 0

\* the colon-separated pieces of s, none for the empty text
PiecesOf(s) == IF s = <<>> THEN <<>> ELSE SplitOn(s, ":")

\* IPv6 parser on the text between the brackets: eight pieces, "::" standing
\* for the zero pieces left out; <<>> for failure
IPv6Parse(s) ==
    The({ The({ IF \E i \in 1..Len(ba[1] \o ba[2]) : (ba[1] \o ba[2])[i] \notin HexPieces
                THEN <<>>
                ELSE IF CompressAt(low) = 0
                THEN IF Len(ba[1]) = 8 THEN ba[1] ELSE <<>>
                ELSE IF Len(ba[1]) + Len(ba[2]) > 7 THEN <<>>
                ELSE ba[1] \o [i \in 1..(8 - Len(ba[1]) - Len(ba[2])) |-> "0"] \o ba[2]
                : ba \in { IF CompressAt(low) = 0
                           THEN <<PiecesOf(low), <<>> >>
                           ELSE <<PiecesOf(SubSeq(low, 1, CompressAt(low) - 1)),
                                  PiecesOf(SubSeq(low, CompressAt(low) + 2, Len(low)))>> } })
          : low \in {ToLowerCase(s)} })

\* the length of the run of zero pieces of p that starts at piece i
ZeroRun(p, i) ==
    LET RunLen[k \in 1..9] ==
            IF k = 9 THEN 0
            ELSE IF p[k] = "0" THEN 1 + RunLen[k + 1] ELSE 0
    IN  RunLen[i]

\* the piece at which the first longest run of two or more zero pieces
\* starts, 0 when there is none
CompressFrom(p) ==
    LET IsRunStart(i) == p[i] = "0" /\ (i = 1 \/ p[i - 1] # "0")
    IN  IF \E i \in 1..8 : IsRunStart(i) /\ ZeroRun(p, i) >= 2
        THEN CHOOSE i \in 1..8 :
                 /\ IsRunStart(i) /\ ZeroRun(p, i) >= 2
                 /\ \A j \in 1..8 : IsRunStart(j) =>
                        \/ ZeroRun(p, j) < ZeroRun(p, i)
                        \/ (ZeroRun(p, j) = ZeroRun(p, i) /\ j >= i)
        ELSE 0

\* IPv6 serializer: the first longest run of two or more zero pieces is
\* written "::"; the result is bracketed
IPv6Serialize(p) ==
    The({ IF best = 0 THEN <<"[">> \o JoinWith(p, ":") \o <<"]">>
          ELSE <<"[">> \o JoinWith(SubSeq(p, 1, best - 1), ":")
                       \o <<":", ":">>
                       \o JoinWith(SubSeq(p, best + ZeroRun(p, best), 8), ":")
                       \o <<"]">>
          : best \in {CompressFrom(p)} })

\* host parser of a special scheme; <<>> for failure
HostParse(h) ==
    IF h = <<>> THEN <<>>
    ELSE IF h[1] = "["
         THEN IF h[Len(h)] # "]" THEN <<>>
              ELSE The({ IF pieces = <<>> THEN <<>> ELSE IPv6Serialize(pieces)
                         : pieces \in {IPv6Parse(SubSeq(h, 2, Len(h) - 1))} })
    ELSE IF EndsInANumber(h)
         THEN The({ IF bytes = <<>> THEN <<>> ELSE IPv4Serialize(bytes)
                    : bytes \in {IPv4Parse(h)} })
    ELSE ToLowerCase(h)

ParseURL(u) ==
    IF u.scheme = "" THEN ParseFailure
    ELSE IF LowerToken(u.scheme) \notin SpecialSchemes THEN ParseFailure
    ELSE IF ~PortOk(PortOf(u.host)) THEN ParseFailure
    ELSE The({ IF hostname = <<>> THEN ParseFailure
               ELSE [ok |-> TRUE,
                     protocol |-> LowerToken(u.scheme) \o ":",
                     hostname |-> hostname]
               : hostname \in {HostParse(HostOf(u.host))} })

----------------------------------------------------------------------------
(* Server: isInternalUrl (route.ts) *)

Dotted(a, b, c, d) == <<a, ".", b, ".", c, ".", d>>

\* blockedHosts of the handler
ServerBlockedHosts ==
    { <<"localhost">>,
      Dotted("127", "0", "0", "1"),
      Dotted("0", "0", "0", "0"),
      <<":", ":", "1">>,
      <<"0", ":", "0", ":", "0", ":", "0", ":", "0", ":", "0", ":", "0", ":", "1">> }

\* /^172\.(1[6-9]|2[0-9]|3[0-1])\./
Matches172(h) ==
    /\ Len(h) >= 4
    /\ h[1] = "172" /\ h[2] = "."
    /\ h[3] \in {ToString(n) : n \in 16..31}
    /\ h[4] = "."

\* a literal label followed by one separator, anchored at the start
MatchesPrefix(h, p) == StartsWith(h, p)

\* privateIPPatterns.some(pattern => pattern.test(hostname)) of the handler
ServerPrivatePattern(h) ==
    \/ MatchesPrefix(h, <<"10", ".">>)
    \/ Matches172(h)
    \/ MatchesPrefix(h, <<"192", ".", "168", ".">>)
    \/ MatchesPrefix(h, <<"169", ".", "254", ".">>)
    \/ MatchesPrefix(h, <<"fc00", ":">>)
    \/ MatchesPrefix(h, <<"fd00", ":">>)

isInternalUrl(u) ==
    \E url \in {ParseURL(u)} :
        IF ~url.ok THEN TRUE
        ELSE \E hostname \in {ToLowerCase(url.hostname)} :
                \/ hostname \in ServerBlockedHosts
                \/ ServerPrivatePattern(hostname)

----------------------------------------------------------------------------
(* Client: isValidUrl (WebhookTester) *)

ClientBlockedHosts ==
    { <<"localhost">>,
      Dotted("127", "0", "0", "1"),
      Dotted("0", "0", "0", "0"),
      <<":", ":", "1">> }

\* /^10\.|^172\.(1[6-9]|2[0-9]|3[0-1])\.|^192\.168\./
ClientPrivatePattern(h) ==
    \/ MatchesPrefix(h, <<"10", ".">>)
    \/ Matches172(h)
    \/ MatchesPrefix(h, <<"192", ".", "168", ".">>)

isValidUrl(u) ==
    \E urlObj \in {ParseURL(u)} :
        IF ~urlObj.ok THEN FALSE
        ELSE \E hostname \in {ToLowerCase(urlObj.hostname)} :
                IF \E blocked \in ClientBlockedHosts :
                       \/ hostname = blocked
                       \/ StartsWith(hostname, blocked \o <<".">>)
                THEN FALSE
                ELSE IF ClientPrivatePattern(hostname) THEN FALSE
                ELSE urlObj.protocol \in {"http:", "https:"}

----------------------------------------------------------------------------
(* Inputs *)

U(s, h) == [scheme |-> s, host |-> h]

EmptyText == U("", <<>>)

ExampleCom == U("http", <<"example", ".", "com">>)

LinkLocal == U("http", Dotted("169", "254", "1", "1"))

\* the URL texts a caller may send to the handler
Urls ==
    { EmptyText,
      U("", <<"example", ".", "com">>),
      U("ftp", <<"example", ".", "com">>),
      U("ftp", <<"localhost">>),
      ExampleCom,
      U("HTTPS", <<"EXAMPLE", ".", "com", ":", "80">>),
      U("http", <<"localhost">>),
      U("https", <<"LOCALHOST">>),
      U("http", <<"localhost", ".", "example">>),
      U("http", Dotted("127", "0", "0", "1")),
      U("http", <<"127", ".", "1">>),
      U("http", Dotted("127", "0", "0", "1") \o <<".", "evil">>),
      U("http", Dotted("0", "0", "0", "0")),
      U("http", <<"[", ":", ":", "1", "]">>),
      U("http", <<"[", "0", ":", "0", ":", "0", ":", "0", ":",
                       "0", ":", "0", ":", "0", ":", "1", "]">>),
      U("http", <<":", ":", "1">>),
      U("http", Dotted("10", "0", "0", "1")),
      U("http", Dotted("172", "16", "0", "1")),
      U("http", Dotted("172", "31", "255", "255")),
      U("http", Dotted("172", "15", "255", "255")),
      U("http", Dotted("172", "32", "0", "1")),
      U("http", Dotted("172", "32", "0", "0") \o <<".", "1">>),
      U("http", Dotted("192", "168", "1", "1")),
      LinkLocal,
      U("http", <<"[", "fc00", ":", ":", "1", "]">>),
      U("http", <<"[", "FC00", ":", ":", "1", "]">>),
      U("http", <<"[", "fd00", ":", ":", "1", "]">>),
      U("http", <<"fc00", ":", ":", "1">>),
      U("http", <<"fc00", ":">>) }

\* request bodies: not JSON at all, JSON without url, url a number (0 is
\* falsy, 5 is truthy and not a string), url a string
Bodies ==
    { [kind |-> "notjson"], [kind |-> "nourl"] }
      \cup { [kind |-> "number", value |-> v] : v \in {0, 5} }
      \cup { [kind |-> "string", url |-> u] : u \in Urls }

\* completed exchanges: the status code the target answers with and the
\* latency the handler measures, in ms
Exchanges ==
    { [status |-> 200, latency |-> 7],
      [status |-> 404, latency |-> 0],
      [status |-> 500, latency |-> 7] }

----------------------------------------------------------------------------
(* Server: POST (route.ts) *)

JsonResponse(status, body) == [status |-> status, body |-> body]

NoResp == [status |-> 0]

\* !url || typeof url !== "string"
MissingUrl(b) ==
    \/ b.kind = "nourl"
    \/ b.kind = "number"
    \/ b.kind = "string" /\ b.url = EmptyText

\* the validation of the handler, in its order: the response of the first
\* failing step, NoResp when every step passes
RejectionMutNoHostCheck(b) ==
    IF MissingUrl(b)
    THEN JsonResponse(400, [error |-> "URL is required and must be a string"])
    ELSE The({
    IF ~targetUrl.ok
    THEN JsonResponse(400, [success |-> FALSE, error |-> "Invalid URL format"])
    ELSE IF targetUrl.protocol \notin {"http:", "https:"}
    THEN JsonResponse(400, [success |-> FALSE,
                            error |-> "Only HTTP and HTTPS protocols are allowed"])
    ELSE NoResp
    : targetUrl \in {ParseURL(b.url)} })

Rejection(b) ==
    IF MissingUrl(b)
    THEN JsonResponse(400, [error |-> "URL is required and must be a string"])
    ELSE The({
    IF ~targetUrl.ok
    THEN JsonResponse(400, [success |-> FALSE, error |-> "Invalid URL format"])
    ELSE IF targetUrl.protocol \notin {"http:", "https:"}
    THEN JsonResponse(400, [success |-> FALSE,
                            error |-> "Only HTTP and HTTPS protocols are allowed"])
    ELSE IF isInternalUrl(b.url)
    THEN JsonResponse(403, [success |-> FALSE,
                            error |-> "Access to internal/private URLs is not allowed"])
    ELSE NoResp
    : targetUrl \in {ParseURL(b.url)} })

InternalError ==
    JsonResponse(500, [success |-> FALSE, error |-> "Internal server error"])

\* the response of a completed exchange
SuccessResponseMutOk(status, latency) ==
    IF status \in 200..299
    THEN JsonResponse(200, [success |-> TRUE, statusCode |-> status, latency |-> latency,
                            message |-> "Webhook responded with " \o ToString(status)])
    ELSE JsonResponse(200, [success |-> FALSE, statusCode |-> status,
                            error |-> "Webhook responded with " \o ToString(status)])

SuccessResponse(status, latency) ==
    JsonResponse(200, [success |-> TRUE, statusCode |-> status, latency |-> latency,
                       message |-> "Webhook responded with " \o ToString(status)])

TimeoutMessage == "Request timeout (>10s)"

\* what fetch may throw
AbortError  == [isError |-> TRUE, name |-> "AbortError", includesFetchFailed |-> FALSE,
                message |-> "This operation was aborted"]

FetchFailed == [isError |-> TRUE, name |-> "TypeError", includesFetchFailed |-> TRUE,
                message |-> "fetch failed"]

OtherError  == [isError |-> TRUE, name |-> "Error", includesFetchFailed |-> FALSE,
                message |-> "socket hang up"]

NonError    == [isError |-> FALSE, name |-> "", includesFetchFailed |-> FALSE,
                message |-> ""]

\* the catch branch of the probe: the response for what fetch threw
ClassifyMutAbortName(e) ==
    IF e.isError
    THEN IF e.name = "TimeoutError"
         THEN JsonResponse(200, [success |-> FALSE, error |-> TimeoutMessage])
         ELSE IF e.includesFetchFailed
         THEN JsonResponse(200, [success |-> FALSE,
                                 error |-> "Network error: Could not reach the URL"])
         ELSE JsonResponse(200, [success |-> FALSE,
                                 error |-> "Request failed: " \o e.message])
    ELSE JsonResponse(200, [success |-> FALSE, error |-> "Unknown error occurred"])

Classify(e) ==
    IF e.isError
    THEN IF e.name = "AbortError"
         THEN JsonResponse(200, [success |-> FALSE, error |-> TimeoutMessage])
         ELSE IF e.includesFetchFailed
         THEN JsonResponse(200, [success |-> FALSE,
                                 error |-> "Network error: Could not reach the URL"])
         ELSE JsonResponse(200, [success |-> FALSE,
                                 error |-> "Request failed: " \o e.message])
    ELSE JsonResponse(200, [success |-> FALSE, error |-> "Unknown error occurred"])

\* clearTimeout: a pending timer is cancelled, any other is left as it is
ClearTimeout(t) == IF t = "armed" THEN "cleared" ELSE t

----------------------------------------------------------------------------
(* Client: history entries and the persisted item "webhook-tests" *)

MaxHistory == 20

\* probes one page session may start
MaxProbes == 2

Undefined == "undefined"

Null == -1

\* reading a property that may be missing
ErrorOf(t) == IF "error" \in DOMAIN t THEN t.error ELSE Undefined

\* data.statusCode || null: a missing or zero status code reads null
StatusCodeOrNull(data) ==
    IF "statusCode" \in DOMAIN data /\ data.statusCode # 0
    THEN data.statusCode ELSE Null

\* data.latency || Math.round(endTime - startTime): a missing or zero
\* latency falls back to the round trip measured by the client
LatencyOrRoundTrip(data, roundTrip) ==
    IF "latency" \in DOMAIN data /\ data.latency # 0
    THEN data.latency ELSE roundTrip

\* the entry built from a decoded response
NewTest(data, u, now, roundTrip) ==
    [id |-> now, url |-> u,
     statusCode |-> StatusCodeOrNull(data),
     latency |-> LatencyOrRoundTrip(data, roundTrip),
     timestamp |-> now,
     error |-> IF "error" \in DOMAIN data THEN data.error ELSE Undefined]

\* the entry built in the catch branch
CaughtTest(err, u, now) ==
    [id |-> now, url |-> u, statusCode |-> Null, latency |-> Null,
     timestamp |-> now,
     error |-> IF err.isError THEN err.message ELSE "Unknown error occurred"]

\* [newTest, ...prev].slice(0, 20)
PrependMutNoTrim(newTest, prev) == <<newTest>> \o prev

Prepend(newTest, prev) ==
    SubSeq(<<newTest>> \o prev, 1,
           IF Len(prev) + 1 > MaxHistory THEN MaxHistory ELSE Len(prev) + 1)

\* the history after the catch branch
TestsAfterCatchMutDrop(prev, err, u, now) == prev

TestsAfterCatch(prev, err, u, now) == Prepend(CaughtTest(err, u, now), prev)

\* JSON.stringify then JSON.parse of the history: a property whose value is
\* undefined is left out, everything else comes back as it was
JsonRoundTrip(ts) ==
    [i \in DOMAIN ts |->
        IF ErrorOf(ts[i]) = Undefined
        THEN [f \in (DOMAIN ts[i]) \ {"error"} |-> ts[i][f]]
        ELSE ts[i]]

NoItem == [present |-> FALSE]

\* the item, held as what JSON.parse reads back from it
Item(ts) == [present |-> TRUE, value |-> JsonRoundTrip(ts)]

\* the save effect: the item is written only for a non-empty history
SaveEffectMutAlways(ts, item) == Item(ts)

SaveEffect(ts, item) == IF Len(ts) > 0 THEN Item(ts) ELSE item

\* the load effect: the parsed item replaces the history when there is one
LoadEffect(ts, item) == IF item.present THEN item.value ELSE ts

\* a history left in the store by an earlier session: n successful probes,
\* newest first, made at times n, ..., 1
EarlierHistory(n) ==
    [i \in 1..n |->
        [id |-> n + 1 - i, url |-> ExampleCom, statusCode |-> 200,
         latency |-> 7, timestamp |-> n + 1 - i]]

\* what the user may type into the input
TypedUrls == { EmptyText, ExampleCom, U("http", <<"localhost">>), LinkLocal }

\* round trips the client may measure, in ms
RoundTrips == {12}

\* what the client's own fetch or response.json() may throw
ClientErrors ==
    { [isError |-> TRUE, message |-> "Failed to fetch"],
      [isError |-> FALSE, message |-> ""] }

----------------------------------------------------------------------------
(* State *)

VARIABLES
    net,        \* the request on its way to the handler, or NoReq
    spc,        \* the handler: "idle", "fetching" (awaiting fetch), "returned"
    call,       \* the body of the request being handled
    timer,      \* the deadline timer: "unset", "armed", "fired", "cleared"
    fetched,    \* the outbound fetch: none, pending, a response, an error
    sent,       \* outbound requests issued by this call
    resp,       \* the response returned by this call, or NoResp
    url,        \* client: the input text
    isLoading,  \* client: a probe is in flight
    error,      \* client: the banner text
    tests,      \* client: the history list
    item,       \* localStorage item "webhook-tests"
    cpc,        \* client: "idle", "awaiting" (testWebhook awaits the reply)
    probeUrl,   \* client: the url testWebhook was called with
    clock,      \* the time, one tick per history entry
    started,    \* probes started in this page session
    last        \* the client handler that ran last

serverVars == <<net, spc, call, timer, fetched, sent, resp>>

clientVars == <<url, isLoading, error, tests, item, cpc, probeUrl, clock, started, last>>

vars == <<net, spc, call, timer, fetched, sent, resp,
          url, isLoading, error, tests, item, cpc, probeUrl, clock, started, last>>

NoReq == [kind |-> "none"]

NoFetch == [kind |-> "none"]

Pending == [kind |-> "pending"]

\* the handler with no call in progress
ServerIdle ==
    /\ net = NoReq
    /\ spc = "idle"
    /\ call = NoReq
    /\ timer = "unset"
    /\ fetched = NoFetch
    /\ sent = 0
    /\ resp = NoResp

\* the component after mounting on a store holding item0: the load effect
\* and the save effect have run
Mounted(item0) ==
    /\ url = EmptyText
    /\ isLoading = FALSE
    /\ error = ""
    /\ tests = LoadEffect(<<>>, item0)
    /\ item = SaveEffect(LoadEffect(<<>>, item0), item0)
    /\ cpc = "idle"
    /\ probeUrl = EmptyText
    /\ started = 0

\* the handler alone; the page is never used
Init ==
    /\ ServerIdle
    /\ Mounted(NoItem)
    /\ clock = 1
    /\ last = "mount"

\* the page, opened on an empty store or on the history of an earlier session
ClientInit ==
    /\ ServerIdle
    /\ \E n \in {0, MaxHistory - 1, MaxHistory} :
          /\ Mounted(IF n = 0 THEN NoItem ELSE Item(EarlierHistory(n)))
          /\ clock = n + 1
    /\ last = "mount"

----------------------------------------------------------------------------
(* Server actions *)

\* the response POST returns before any fetch, NoResp when it goes on to
\* the probe: request.json() throwing ends in the outer catch
EarlyReturn(b) == IF b.kind = "notjson" THEN InternalError ELSE Rejection(b)

\* POST up to its first await of fetch (the timer is armed and the request
\* issued), or to the return of a rejection
ServerReceive ==
    /\ net # NoReq
    /\ spc = "idle"
    /\ call' = net
    /\ net' = NoReq
    /\ \E early \in {EarlyReturn(net)} :
          /\ resp' = early
          /\ spc' = IF early # NoResp THEN "returned" ELSE "fetching"
          /\ timer' = IF early # NoResp THEN timer ELSE "armed"
          /\ fetched' = IF early # NoResp THEN fetched ELSE Pending
          /\ sent' = IF early # NoResp THEN sent ELSE sent + 1
    /\ UNCHANGED clientVars

\* the target completes the exchange with some status after some time
TargetResponds ==
    /\ spc = "fetching"
    /\ fetched = Pending
    /\ \E x \in Exchanges :
          fetched' = [kind |-> "response", status |-> x.status, latency |-> x.latency]
    /\ UNCHANGED <<net, spc, call, timer, sent, resp>>
    /\ UNCHANGED clientVars

\* fetch rejects by itself: transport failure, another Error, a non-Error
FetchThrows ==
    /\ spc = "fetching"
    /\ fetched = Pending
    /\ \E e \in {FetchFailed, OtherError, NonError} :
          fetched' = [kind |-> "error", err |-> e]
    /\ UNCHANGED <<net, spc, call, timer, sent, resp>>
    /\ UNCHANGED clientVars

\* the deadline: the timer callback aborts the controller, fetch rejects
\* with the AbortError
TimerFires ==
    /\ spc = "fetching"
    /\ timer = "armed"
    /\ fetched = Pending
    /\ timer' = "fired"
    /\ fetched' = [kind |-> "error", err |-> AbortError]
    /\ UNCHANGED <<net, spc, call, sent, resp>>
    /\ UNCHANGED clientVars

\* the timer on leaving the try or the catch block
TimerOnExitMutLeak(t, f) == IF f.kind = "response" THEN ClearTimeout(t) ELSE t

TimerOnExit(t, f) == ClearTimeout(t)

\* POST after the await: the try block's return or the catch block
HandlerResume ==
    /\ spc = "fetching"
    /\ fetched.kind \in {"response", "error"}
    /\ timer' = TimerOnExit(timer, fetched)
    /\ resp' = IF fetched.kind = "response"
               THEN SuccessResponse(fetched.status, fetched.latency)
               ELSE Classify(fetched.err)
    /\ spc' = "returned"
    /\ UNCHANGED <<net, call, fetched, sent>>
    /\ UNCHANGED clientVars

\* a caller other than the page sends a request
DirectCall ==
    /\ net = NoReq
    /\ spc = "idle"
    /\ \E b \in Bodies : net' = b
    /\ UNCHANGED <<spc, call, timer, fetched, sent, resp>>
    /\ UNCHANGED clientVars

\* that caller takes the response; the call is over
DirectReturn ==
    /\ spc = "returned"
    /\ net' = NoReq
    /\ spc' = "idle"
    /\ call' = NoReq
    /\ timer' = "unset"
    /\ fetched' = NoFetch
    /\ sent' = 0
    /\ resp' = NoResp
    /\ UNCHANGED clientVars

----------------------------------------------------------------------------
(* Client actions *)

ResetServer ==
    /\ net' = NoReq
    /\ spc' = "idle"
    /\ call' = NoReq
    /\ timer' = "unset"
    /\ fetched' = NoFetch
    /\ sent' = 0
    /\ resp' = NoResp

\* the disabled attribute of the input and of the TEST button: a disabled
\* element takes no click, no key and no change
DisabledMutNever(loading) == FALSE

Disabled(loading) == loading

\* onChange of the input (disabled while loading)
TypeUrl ==
    /\ ~Disabled(isLoading)
    /\ \E u \in TypedUrls \ {url} : url' = u
    /\ UNCHANGED <<isLoading, error, tests, item, cpc, probeUrl, clock, started, last>>
    /\ UNCHANGED serverVars

\* testWebhook up to its await of fetch, from the button or the Enter key
\* (both disabled while loading); the function itself tests nothing but
\* the url
TestWebhook ==
    /\ ~Disabled(isLoading)
    /\ IF url = EmptyText
       THEN /\ error' = "Please enter a URL"
            /\ UNCHANGED <<isLoading, cpc, probeUrl, started, net>>
       ELSE IF ~isValidUrl(url)
       THEN /\ error' = "Invalid URL or blocked for security reasons (no localhost/private IPs)"
            /\ UNCHANGED <<isLoading, cpc, probeUrl, started, net>>
       ELSE /\ started < MaxProbes
            /\ error' = ""
            /\ isLoading' = TRUE
            /\ cpc' = "awaiting"
            /\ probeUrl' = url
            /\ started' = started + 1
            /\ net' = [kind |-> "string", url |-> url]
    /\ UNCHANGED <<url, tests, item, clock, last>>
    /\ UNCHANGED <<spc, call, timer, fetched, sent, resp>>

\* testWebhook after the await: the reply is decoded, the entry is built
\* and prepended, the input is cleared; then the save effect
ClientResume ==
    /\ cpc = "awaiting"
    /\ spc = "returned"
    /\ \E rt \in RoundTrips :
          tests' = Prepend(NewTest(resp.body, probeUrl, clock, rt), tests)
    /\ item' = SaveEffect(tests', item)
    /\ url' = EmptyText
    /\ isLoading' = FALSE
    /\ cpc' = "idle"
    /\ probeUrl' = EmptyText
    /\ clock' = clock + 1
    /\ last' = "probe"
    /\ UNCHANGED <<error, started>>
    /\ ResetServer

\* the client's fetch or response.json() throws (the request or the reply
\* is lost or cannot be decoded): the catch branch; then the save effect
ClientThrows ==
    /\ cpc = "awaiting"
    /\ net # NoReq \/ spc = "returned"
    /\ \E e \in ClientErrors :
          tests' = TestsAfterCatch(tests, e, probeUrl, clock)
    /\ item' = SaveEffect(tests', item)
    /\ isLoading' = FALSE
    /\ cpc' = "idle"
    /\ probeUrl' = EmptyText
    /\ clock' = clock + 1
    /\ last' = "probe"
    /\ UNCHANGED <<url, error, started>>
    /\ ResetServer

\* clearHistory (the button is shown for a non-empty history); then the
\* save effect on the empty history
ClearHistory ==
    /\ Len(tests) > 0
    /\ tests' = <<>>
    /\ item' = SaveEffect(<<>>, NoItem)
    /\ last' = "clear"
    /\ UNCHANGED <<url, isLoading, error, cpc, probeUrl, clock, started>>
    /\ UNCHANGED serverVars

\* the page is reloaded: the component state is new, the load effect and
\* the save effect run; a call in progress is abandoned and followed no
\* further
Reload ==
    /\ url' = EmptyText
    /\ isLoading' = FALSE
    /\ error' = ""
    /\ tests' = LoadEffect(<<>>, item)
    /\ item' = SaveEffect(tests', item)
    /\ cpc' = "idle"
    /\ probeUrl' = EmptyText
    /\ last' = "reload"
    /\ UNCHANGED <<clock, started>>
    /\ ResetServer

Next ==
    \/ DirectCall
    \/ ServerReceive
    \/ TargetResponds
    \/ FetchThrows
    \/ TimerFires
    \/ HandlerResume
    \/ DirectReturn

Spec == Init /\ [][Next]_vars

\* the timer runs out unless the fetch settles first, and the handler runs
\* on once the fetch has settled
ServerLiveSpec ==
    /\ Init /\ [][Next]_vars
    /\ WF_vars(TimerFires)
    /\ WF_vars(HandlerResume)


ClientNext ==
    \/ TypeUrl
    \/ TestWebhook
    \/ ServerReceive
    \/ TargetResponds
    \/ FetchThrows
    \/ TimerFires
    \/ HandlerResume
    \/ ClientResume
    \/ ClientThrows
    \/ ClearHistory
    \/ Reload

ClientSpec == ClientInit /\ [][ClientNext]_vars

\* one page session, never reloaded
SessionNext ==
    \/ TypeUrl
    \/ TestWebhook
    \/ ServerReceive
    \/ TargetResponds
    \/ FetchThrows
    \/ TimerFires
    \/ HandlerResume
    \/ ClientResume
    \/ ClientThrows
    \/ ClearHistory

\* the handler runs when a request arrives, its timer runs out unless the
\* fetch settles first, it runs on once the fetch has settled, and the
\* client runs on once the reply is there
ClientLiveSpec ==
    /\ ClientInit /\ [][SessionNext]_vars
    /\ WF_vars(ServerReceive)
    /\ WF_vars(TimerFires)
    /\ WF_vars(HandlerResume)
    /\ WF_vars(ClientResume)

----------------------------------------------------------------------------
(* Claims about the handler *)

\* the body carries a non-empty string that parses, with scheme http or
\* https, whose host the handler does not take for internal
PassesValidation(b) ==
    /\ b.kind = "string"
    /\ b.url # EmptyText
    /\ ParseURL(b.url).ok
    /\ ParseURL(b.url).protocol \in {"http:", "https:"}
    /\ ~isInternalUrl(b.url)

\* C1: a call of the handler issues exactly one outbound request when the
\* url passes every validation step and none when the call is rejected, and
\* no outcome (timeout, network failure, other error) adds a second one.
C1_OneOutboundRequest ==
    /\ sent \in {0, 1}
    /\ call # NoReq => sent = (IF PassesValidation(call) THEN 1 ELSE 0)
    /\ spc = "returned" /\ resp.status \in {400, 403, 500} => sent = 0

C1_Witness ==
    /\ spc = "returned"
    /\ sent = 1
    /\ fetched = [kind |-> "error", err |-> FetchFailed]

\* the handled body is an http(s) URL that parses
HandlesHttpUrl ==
    /\ call # NoReq
    /\ call.kind = "string"
    /\ ParseURL(call.url).ok
    /\ ParseURL(call.url).protocol \in {"http:", "https:"}

\* the lower-cased hostname equals a blocklist entry or begins with one
\* followed by a dot
OnBlocklist(h) ==
    \E blocked \in ServerBlockedHosts :
        \/ ToLowerCase(h) = blocked
        \/ StartsWith(ToLowerCase(h), blocked \o <<".">>)

\* C2: every http(s) URL whose lower-cased hostname equals a blocklist entry
\* or begins with one followed by a dot is answered 403, with no outbound
\* request.
C2_BlocklistRejected ==
    HandlesHttpUrl /\ OnBlocklist(ParseURL(call.url).hostname) =>
        /\ sent = 0
        /\ spc = "returned" => resp.status = 403

\* the host named by the URL text lies in 10/8, 172.16/12, 192.168/16,
\* 169.254/16 or is an IPv6 literal with first piece fc00 or fd00
InPrivateRange(u) ==
    LET h == ParseURL(u).hostname
    IN  \/ /\ Len(h) = 7
           /\ \/ h[1] = "10"
              \/ h[1] = "172" /\ IsNumeral(h[3]) /\ NumVal(h[3]) \in 16..31
              \/ h[1] = "192" /\ h[3] = "168"
              \/ h[1] = "169" /\ h[3] = "254"
        \/ /\ Len(h) >= 2
           /\ h[1] = "["
           /\ h[2] \in {"fc00", "fd00"}

JustOutside172 ==
    { U("http", Dotted("172", "15", "255", "255")),
      U("http", Dotted("172", "32", "0", "0") \o <<".", "1">>) }

\* C3: every URL whose hostname lies in a private range is answered 403,
\* and 172.15.255.255 and 172.32.0.0.1 pass validation and are probed.
C3_PrivateRanges ==
    /\ HandlesHttpUrl /\ InPrivateRange(call.url) =>
          /\ sent = 0
          /\ spc = "returned" => resp.status = 403
    /\ call # NoReq /\ call.kind = "string" /\ call.url \in JustOutside172 =>
          sent = 1

\* C4: the client validator returns false exactly for the URL strings the
\* handler answers with a validation rejection (400 or 403).
C4_SameRejections ==
    spc = "returned" /\ call.kind = "string" =>
        (~isValidUrl(call.url) <=> resp.status \in {400, 403})

TimeoutResponse == JsonResponse(200, [success |-> FALSE, error |-> TimeoutMessage])

C7_NoPendingTimer ==
    spc = "returned" => timer # "armed"

C7_Witness ==
    /\ spc = "returned"
    /\ timer = "cleared"
    /\ fetched = [kind |-> "error", err |-> NonError]

\* C8: a completed exchange, whatever its status code, is answered with
\* success=true, the target's status code, a latency and no error.
C8_AnyStatusIsSuccess ==
    spc = "returned" /\ fetched.kind = "response" =>
        /\ resp.status = 200
        /\ resp.body.success = TRUE
        /\ resp.body.statusCode = fetched.status
        /\ "latency" \in DOMAIN resp.body
        /\ resp.body.latency = fetched.latency
        /\ "error" \notin DOMAIN resp.body

C8_Witness ==
    /\ spc = "returned"
    /\ fetched.kind = "response"
    /\ fetched.status = 404
    /\ resp.body.success = TRUE
    /\ resp.body.statusCode = 404

----------------------------------------------------------------------------
(* Claims about the client *)

Min(a, b) == IF a < b THEN a ELSE b

\* the same entries in the same order, property by property
SameEntries(a, b) ==
    /\ Len(a) = Len(b)
    /\ \A i \in 1..Len(a) :
          /\ a[i].id = b[i].id
          /\ a[i].url = b[i].url
          /\ a[i].statusCode = b[i].statusCode
          /\ a[i].latency = b[i].latency
          /\ a[i].timestamp = b[i].timestamp
          /\ ErrorOf(a[i]) = ErrorOf(b[i])

NewestFirst(ts) ==
    \A i, j \in 1..Len(ts) : i < j => ts[i].timestamp > ts[j].timestamp

\* C5: the history never holds more than 20 entries and is newest-first; a
\* probe completion puts its entry at the head, keeps the entries before it
\* in their order and drops only the oldest one at the cap; a reload
\* restores the same entries in the same order.
C5_HistoryCappedNewestFirst ==
    /\ [](Len(tests) <= MaxHistory /\ NewestFirst(tests))
    /\ [](SameEntries(LoadEffect(<<>>, item), tests))
    /\ [][clock' = clock + 1 =>
            /\ tests'[1].timestamp = clock
            /\ Tail(tests') = SubSeq(tests, 1, Min(Len(tests), MaxHistory - 1))]_vars
    /\ [][last' = "reload" => SameEntries(tests', tests)]_vars

C5_Witness ==
    /\ last = "reload"
    /\ Len(tests) = MaxHistory
    /\ tests[1].timestamp = MaxHistory + 1
    /\ tests[MaxHistory].timestamp = 2

\* C9: after clearHistory, also with a probe in flight, the history is empty
\* and the store holds no item; an absent item comes back only in a step
\* in which a probe adds an entry.
C9_ClearEmptiesBoth ==
    /\ [](last = "clear" => tests = <<>> /\ item = NoItem)
    /\ [][item = NoItem /\ item' # NoItem =>
            /\ clock' = clock + 1
            /\ Len(tests') = 1
            /\ tests'[1].timestamp = clock]_vars

C9_Witness ==
    /\ last = "clear"
    /\ cpc = "awaiting"
    /\ spc = "fetching"
    /\ tests = <<>>
    /\ item = NoItem

Ids(ts) == {ts[i].id : i \in 1..Len(ts)}

C11_SingleProbeInFlight ==
    /\ [](isLoading <=> cpc = "awaiting")
    /\ [][started' # started =>
            /\ ~isLoading /\ cpc = "idle"
            /\ isLoading' /\ cpc' = "awaiting"]_vars
    /\ [][cpc = "awaiting" /\ cpc' = "idle" => ~isLoading']_vars

C11_Witness ==
    /\ isLoading
    /\ cpc = "awaiting"
    /\ started = 2
    /\ last = "probe"
    /\ Len(tests) >= 1
    /\ ErrorOf(tests[1]) = "Failed to fetch"

====
